---- MODULE Spec2Model ----
(***************************************************************************)
(* State-machine model of powerpedal_test_dashboard.py: the CSV loader     *)
(* (load_data), the bin-average downsampler (advanced_downsample), the     *)
(* smoothing pass over the graph frames and the sidebar / time-window part *)
(* of the Streamlit script.                                                *)
(*                                                                         *)
(* A pandas DataFrame is a record [index, cols]: index is the sequence of  *)
(* row labels, cols maps a column name to the sequence of its cells.       *)
(* Numeric cells are exact rationals [n, d] (d > 0, lowest terms); the     *)
(* undefined value NaN is [n |-> 0, d |-> 0].                              *)
(***************************************************************************)
EXTENDS Integers, Sequences, FiniteSets, TLC

VARIABLES
    pc,              \* position of the operation under study
    csv,             \* load_data: the table behind csv_url
    loaded,          \* load_data: the returned DataFrame
    st_error,        \* load_data: the message passed to st.error
    raised,          \* the exception that escaped to the caller ("none" if none)
    df,              \* advanced_downsample: the argument frame
    max_points,      \* advanced_downsample: the argument max_points
    df_downsampled,  \* advanced_downsample: the returned frame
    df_graph,        \* the graph frame df_graph_pp / df_graph_s
    smoothing,       \* the 'Apply Smoothing' checkbox
    ss_window_size,  \* st.session_state.window_size (the slider's value)
    window_size,     \* the script's local window_size
    df_pp,           \* script: the loaded PowerPedal frame
    df_s,            \* script: the loaded Stock frame
    show_full,       \* script: the 'Show Full Dataset' checkbox
    ss_time_range,   \* st.session_state.time_range
    initialized,     \* "initialized_time_range" in st.session_state
    w_start,         \* widget state of the number input start_time_input
    w_end,           \* widget state of the number input end_time_input
    w_slider,        \* widget state of the slider time_range_slider
    start_time,      \* script local start_time
    end_time,        \* script local end_time
    time_range,      \* script local time_range
    sidebar_error,   \* st.sidebar.error was called in the current run
    df_filtered_pp,  \* script local df_filtered_pp
    df_filtered_s,   \* script local df_filtered_s
    df_graph_pp,     \* script local df_graph_pp
    df_graph_s,      \* script local df_graph_s
    metrics,         \* script locals distance_pp, duration_pp, distance_s, duration_s
    distance_m,      \* efficiency_m_per_wh: the argument distance_m
    energy_wh,       \* efficiency_m_per_wh: the argument energy_wh
    efficiency       \* efficiency_m_per_wh: the value returned

loadVars == <<csv, loaded, st_error>>

downsampleVars == <<df, max_points, df_downsampled>>

smoothVars == <<df_graph, smoothing, ss_window_size, window_size>>

dataVars == <<df_pp, df_s>>

widgetVars == <<show_full, ss_time_range, initialized, w_start, w_end, w_slider>>

localVars == <<start_time, end_time, time_range, sidebar_error>>

outputVars == <<df_filtered_pp, df_filtered_s, df_graph_pp, df_graph_s, metrics>>

scriptVars == <<dataVars, widgetVars, localVars, outputVars>>

efficiencyVars == <<distance_m, energy_wh, efficiency>>

vars == <<pc, raised, loadVars, downsampleVars, smoothVars, scriptVars, efficiencyVars>>

----------------------------------------------------------------------------
(* Bounds of the model *)

MaxLen == 3          \* rows of a frame handed to advanced_downsample
MaxLabel == 5        \* largest row label of the loaded data
MaxPointsBound == 3  \* largest max_points tried
MaxCsvRows == 2      \* data rows of a CSV file given to load_data
MaxWindow == 3       \* largest 'Smoothing Window Size' tried (the slider allows 0..10)
MaxRideLabel == 3    \* largest row label of a ride loaded by the script
MaxRideRows == 2     \* rows of a ride loaded by the script
MaxDistanceM == 9    \* largest small distance_m given to efficiency_m_per_wh
MaxEnergyNum == 3    \* energy_wh ranges over -MaxEnergyNum .. MaxEnergyNum and their halves

----------------------------------------------------------------------------
(* Exact arithmetic standing for float64 *)

Abs(x) == IF x < 0 THEN -x ELSE x

RECURSIVE GCD(_, _)
GCD(a, b) == IF b = 0 THEN a ELSE GCD(b, a % b)

NaN == [n |-> 0, d |-> 0]

IsNaN(x) == x.d = 0

Rat(num, den) ==
    LET g == GCD(Abs(num), den)
    IN  [n |-> num \div g, d |-> den \div g]

Num(v) == [n |-> v, d |-> 1]

RatAdd(x, y) == Rat(x.n * y.d + y.n * x.d, x.d * y.d)

RatLE(x, y) == x.n * y.d <= y.n * x.d

RECURSIVE RatSum(_)
RatSum(s) == IF s = <<>> THEN Num(0) ELSE RatAdd(Head(s), RatSum(Tail(s)))

\* Series.mean() of a sequence of defined values
mean(s) ==
    IF s = <<>> THEN NaN
    ELSE LET t == RatSum(s) IN Rat(t.n, t.d * Len(s))

\* Series.max() of a non-empty sequence of defined values
RECURSIVE SeriesMax(_)
SeriesMax(s) ==
    IF Len(s) = 1 THEN Head(s)
    ELSE LET m == SeriesMax(Tail(s))
         IN  IF RatLE(m, Head(s)) THEN Head(s) ELSE m

----------------------------------------------------------------------------
(* DataFrames *)

required_cols == {"Time", "Battery Power", "Rider Power", "KMPH", "Ride Distance"}

\* pd.DataFrame(): no rows, no columns
EmptyFrame == [index |-> <<>>, cols |-> [c \in {} |-> <<>>]]

len(f) == Len(f.index)

columns(f) == DOMAIN f.cols

\* DataFrame.empty
empty(f) == len(f) = 0 \/ columns(f) = {}

\* the subsequence of s at the positions (ascending) for which keep holds
RECURSIVE SelectPos(_, _, _)
SelectPos(s, keep, i) ==
    IF i > Len(s) THEN <<>>
    ELSE IF keep[i] THEN <<s[i]>> \o SelectPos(s, keep, i + 1)
         ELSE SelectPos(s, keep, i + 1)

\* df[mask]: boolean-mask row selection, labels kept
Mask(f, keep) ==
    [index |-> SelectPos(f.index, keep, 1),
     cols  |-> [c \in columns(f) |-> SelectPos(f.cols[c], keep, 1)]]

\* the elements of a finite set of integers in ascending order
RECURSIVE Sorted(_)
Sorted(S) ==
    IF S = {} THEN <<>>
    ELSE LET m == CHOOSE x \in S : \A y \in S : x <= y
         IN  <<m>> \o Sorted(S \ {m})

----------------------------------------------------------------------------
(* advanced_downsample *)

\* mutant: the fast path misses the case len(df) = max_points
FastPath_strict(f, mp) == len(f) < mp

\* the fast-path test of advanced_downsample
FastPath(f, mp) == len(f) <= mp

\* bin_size = len(df) // max_points + 1
bin_size(f, mp) == len(f) \div mp + 1

\* mutant: stride binning (label modulo bin_size)
BinOf_stride(lbl, bs) == lbl % bs

\* df['bin'] = df.index // bin_size : the bin of the row labelled lbl
BinOf(lbl, bs) == lbl \div bs

bin(f, mp) == [i \in 1..len(f) |-> Num(BinOf(f.index[i], bin_size(f, mp)))]

\* the frame after df['bin'] = ... (the assignment writes into the argument)
WithBin(f, mp) ==
    [index |-> f.index,
     cols  |-> [c \in columns(f) \cup {"bin"} |->
                  IF c = "bin" THEN bin(f, mp) ELSE f.cols[c]]]

\* mutant: Ride Distance averaged like the other columns
Agg_allmean(c, s) == mean(s)

\* the aggregation of one column over one group
Agg(c, s) == IF c = "Ride Distance" THEN SeriesMax(s) ELSE mean(s)

\* df.groupby('bin').agg({...}).reset_index(drop=True)
GroupByBin(f) ==
    LET keys == Sorted({f.cols["bin"][i].n : i \in 1..len(f)})
        member(k) == [i \in 1..len(f) |-> f.cols["bin"][i].n = k]
    IN  [index |-> [j \in 1..Len(keys) |-> j - 1],
         cols  |-> [c \in required_cols |->
                      [j \in 1..Len(keys) |->
                          Agg(c, SelectPos(f.cols[c], member(keys[j]), 1))]]]

\* the value returned by advanced_downsample(df, max_points)
advanced_downsample(f, mp) ==
    IF FastPath(f, mp) THEN f ELSE GroupByBin(WithBin(f, mp))

\* the argument frame after the call
ArgAfterDownsample(f, mp) ==
    IF FastPath(f, mp) THEN f ELSE WithBin(f, mp)

----------------------------------------------------------------------------
(* The frames the dashboard hands to advanced_downsample *)

\* One sample of the ride: power and speed readings
Readings == {[bp |-> 0, rp |-> 4, kmph |-> 1], [bp |-> 3, rp |-> 1, kmph |-> 2]}

DistanceVals == {0, 1, 2}

\* Time of the row that load_data read at position lbl (rides are sampled
\* at a fixed period, so Time grows with the row position)
TimeOf(lbl) == 50 * lbl

\* Row labels of a slice of the loaded data: load_data leaves the RangeIndex
\* of read_csv with the dropped rows missing, and the time-window mask
\* keeps the labels, so the labels ascend but need not start at 0 or be dense.
LabelSeqs == {Sorted(S) : S \in {T \in SUBSET (0..MaxLabel) : Cardinality(T) <= MaxLen}}

Frame(idx, r, dist) ==
    [index |-> idx,
     cols  |-> [c \in required_cols |->
                  [i \in 1..Len(idx) |->
                      CASE c = "Time"          -> Num(TimeOf(idx[i]))
                        [] c = "Battery Power" -> Num(r[i].bp)
                        [] c = "Rider Power"   -> Num(r[i].rp)
                        [] c = "KMPH"          -> Num(r[i].kmph)
                        [] OTHER               -> Num(dist[i])]]]

\* f is a frame with the row labels idx
IsFrame(f, idx) ==
    \E r \in [1..Len(idx) -> Readings], dist \in [1..Len(idx) -> DistanceVals] :
        f = Frame(idx, r, dist)

----------------------------------------------------------------------------
(* Idle values of the parts a specification does not exercise *)

NoCsv == [readable |-> FALSE, index |-> <<>>, cols |-> [c \in {} |-> <<>>]]

NoMessage == [kind |-> "none", cols |-> {}]

LoadIdle == csv = NoCsv /\ loaded = EmptyFrame /\ st_error = NoMessage

DownsampleIdle == df = EmptyFrame /\ max_points = 1 /\ df_downsampled = EmptyFrame

SmoothIdle ==
    df_graph = EmptyFrame /\ smoothing = TRUE /\ ss_window_size = 2 /\ window_size = 2

\* a widget that was not rendered yet: a number input and a range slider
NoNumber == [live |-> FALSE, val |-> 0, dflt |-> 0]

NoSlider == [live |-> FALSE, val |-> <<0, 0>>, dflt |-> <<0, 0>>]

NoMetrics == [distance_pp |-> Num(0), duration_pp |-> Num(0),
              distance_s |-> Num(0), duration_s |-> Num(0)]

EfficiencyIdle == distance_m = 0 /\ energy_wh = Num(0) /\ efficiency = Num(0)

ScriptIdle ==
    /\ df_pp = EmptyFrame /\ df_s = EmptyFrame
    /\ show_full = FALSE /\ ss_time_range = <<0, 10000>> /\ initialized = FALSE
    /\ w_start = NoNumber /\ w_end = NoNumber /\ w_slider = NoSlider
    /\ start_time = 0 /\ end_time = 0 /\ time_range = <<0, 0>> /\ sidebar_error = FALSE
    /\ df_filtered_pp = EmptyFrame /\ df_filtered_s = EmptyFrame
    /\ df_graph_pp = EmptyFrame /\ df_graph_s = EmptyFrame
    /\ metrics = NoMetrics

----------------------------------------------------------------------------
(* SpecDownsample: advanced_downsample applied to every frame and max_points *)

InitDownsample ==
    /\ pc = "call"
    /\ raised = "none"
    /\ EfficiencyIdle
    /\ LoadIdle
    /\ SmoothIdle
    /\ ScriptIdle
    /\ \E idx \in LabelSeqs : IsFrame(df, idx)
    /\ max_points \in 1..MaxPointsBound
    /\ df_downsampled = EmptyFrame

\* df_downsampled = advanced_downsample(df, max_points)
CallAdvancedDownsample ==
    /\ pc = "call"
    /\ df_downsampled' = advanced_downsample(df, max_points)
    /\ df' = ArgAfterDownsample(df, max_points)
    /\ pc' = "returned"
    /\ UNCHANGED <<efficiencyVars, raised, max_points, loadVars, smoothVars, scriptVars>>

NextDownsample == CallAdvancedDownsample

SpecDownsample == InitDownsample /\ [][NextDownsample]_vars

----------------------------------------------------------------------------
(* Claims about advanced_downsample (checked under SpecDownsample) *)

\* the call took the binning path: the argument now carries the 'bin' column
Binned == pc = "returned" /\ len(df) > max_points

\* the positions of the argument's rows that fell into bin k
RowsOfBin(k) == {i \in 1..len(df) : df.cols["bin"][i].n = k}

BinKeys == {df.cols["bin"][i].n : i \in 1..len(df)}

\* the bin behind output row j (1-based): the key with j - 1 smaller keys
KeyOfRow(j) == CHOOSE k \in BinKeys : Cardinality({h \in BinKeys : h < k}) = j - 1

RECURSIVE SumOver(_, _)
SumOver(S, col) ==
    IF S = {} THEN 0
    ELSE LET i == CHOOSE x \in S : TRUE
         IN  col[i].n + SumOver(S \ {i}, col)

NonDecreasing(col) == \A i \in 1..(Len(col) - 1) : RatLE(col[i], col[i + 1])

\* C1 (as claimed): for a nonempty series and max_points >= 1 the returned
\* series has at least 1 and at most max_points rows, also when the series
\* is a slice whose row labels have an offset or gaps.
C1_OutputLengthBounded ==
    (pc = "returned" /\ len(df) >= 1)
        => (len(df_downsampled) >= 1 /\ len(df_downsampled) <= max_points)

\* C6: when len(series) <= max_points the call returns the series it was
\* given, unchanged: same labels, same columns, same values.
C6_FastPathReturnsInput ==
    [][(pc = "call" /\ len(df) <= max_points)
          => (df_downsampled' = df /\ df' = df)]_vars

C6_Witness ==
    /\ pc = "returned"
    /\ len(df) >= 2
    /\ len(df) <= max_points
    /\ df_downsampled = df
    /\ columns(df_downsampled) = required_cols

\* C7: on the binning path every bin yields exactly one output row, the rows
\* are in ascending bin order, Time / Battery Power / Rider Power / KMPH of a
\* row are the arithmetic mean of the bin's samples and Ride Distance is the
\* maximum of the bin's samples.
C7_BinAggregates ==
    Binned =>
        /\ len(df_downsampled) = Cardinality(BinKeys)
        /\ \A j \in 1..len(df_downsampled) :
              LET rows == RowsOfBin(KeyOfRow(j))
              IN  /\ \A c \in {"Time", "Battery Power", "Rider Power", "KMPH"} :
                        /\ df_downsampled.cols[c][j].d > 0
                        /\ df_downsampled.cols[c][j].n * Cardinality(rows)
                             = SumOver(rows, df.cols[c]) * df_downsampled.cols[c][j].d
                  /\ \E i \in rows :
                        df_downsampled.cols["Ride Distance"][j] = df.cols["Ride Distance"][i]
                  /\ \A i \in rows :
                        RatLE(df.cols["Ride Distance"][i],
                              df_downsampled.cols["Ride Distance"][j])

\* a bin of two samples whose largest distance is not its mean distance
C7_Witness ==
    /\ Binned
    /\ \E j \in 1..len(df_downsampled) :
          LET rows == RowsOfBin(KeyOfRow(j))
          IN  /\ Cardinality(rows) >= 2
              /\ df_downsampled.cols["Ride Distance"][j].n * Cardinality(rows)
                   # SumOver(rows, df.cols["Ride Distance"])
              /\ df_downsampled.cols["Battery Power"][j].d > 1

\* C8: if Ride Distance is non-decreasing in the input it is non-decreasing
\* in the output, for every max_points >= 1.
C8_DistanceMonotone ==
    (pc = "returned" /\ NonDecreasing(df.cols["Ride Distance"]))
        => NonDecreasing(df_downsampled.cols["Ride Distance"])

C8_Witness ==
    /\ Binned
    /\ NonDecreasing(df.cols["Ride Distance"])
    /\ len(df_downsampled) >= 2
    /\ df_downsampled.cols["Ride Distance"][1] # df_downsampled.cols["Ride Distance"][2]

\* ceil(a / b) for b >= 1
CeilDiv(a, b) == (a + b - 1) \div b

\* the number of bins whose key is below the key of the row at position i
BinRank(i) == Cardinality({h \in BinKeys : h < df.cols["bin"][i].n})

\* C13 (as claimed): on the binning path the bin size is
\* ceil(n / max_points) and the bins are consecutive runs of the input by
\* position: the first bin holds the first bin_size rows, each following bin
\* the next bin_size rows, only the last bin may be shorter; also when n is a
\* multiple of max_points and when the row labels do not start at 0.
C13_BinsAreCeilSizedRuns ==
    Binned =>
        LET n  == len(df)
            bs == CeilDiv(n, max_points)
        IN  /\ \A i \in 1..n : BinRank(i) = (i - 1) \div bs
            /\ len(df_downsampled) = CeilDiv(n, bs)

\* C15 (as claimed): the call leaves its argument as it was, on the fast
\* path and on the binning path: no column added, no value changed.
C15_ArgumentNotMutated ==
    [][(pc = "call") => (df' = df)]_vars

----------------------------------------------------------------------------
(* load_data *)

\* The texts a CSV cell may hold that pd.to_numeric accepts, with their value
NumericText == [s \in {"7", "12"} |-> IF s = "7" THEN 7 ELSE 12]

\* pd.read_csv(csv_url): a RangeIndex and the cells as read; an empty cell
\* is read as NaN, here the empty text
read_csv(t) == [index |-> t.index, cols |-> t.cols]

\* mutant: only a table lacking every required column is rejected
missing_cols_all(f) ==
    IF required_cols \cap columns(f) = {} THEN required_cols ELSE {}

\* missing_cols = [col for col in required_cols if col not in df.columns]
missing_cols(f) == required_cols \ columns(f)

\* pd.to_numeric(cell, errors="coerce")
to_numeric(s) == IF s \in DOMAIN NumericText THEN Num(NumericText[s]) ELSE NaN

\* for col in required_cols: df[col] = pd.to_numeric(df[col], errors="coerce")
Coerce(f) ==
    [index |-> f.index,
     cols  |-> [c \in columns(f) |->
                  IF c \in required_cols
                  THEN [i \in 1..len(f) |-> to_numeric(f.cols[c][i])]
                  ELSE f.cols[c]]]

\* isna of the cell of column c at position i (after the coercion loop)
isna(f, c, i) ==
    IF c \in required_cols THEN IsNaN(f.cols[c][i]) ELSE f.cols[c][i] = ""

\* df.dropna(): drop every row holding NaN in any column, labels kept
dropna(f) == Mask(f, [i \in 1..len(f) |-> \A c \in columns(f) : ~isna(f, c, i)])

\* load_data(csv_url, _cache_buster): [ret, msg], the frame returned and the
\* message given to st.error; every exception is caught at line 73
load_data(t) ==
    IF ~t.readable
    THEN [ret |-> EmptyFrame, msg |-> [kind |-> "read", cols |-> {}]]
    ELSE LET f == read_csv(t)
         IN  IF missing_cols(f) # {}
             THEN [ret |-> EmptyFrame,
                   msg |-> [kind |-> "missing", cols |-> missing_cols(f)]]
             ELSE IF ~(required_cols \subseteq columns(f))
                  \* KeyError from df[col], caught by except Exception
                  THEN [ret |-> EmptyFrame, msg |-> [kind |-> "read", cols |-> {}]]
                  ELSE [ret |-> dropna(Coerce(f)), msg |-> NoMessage]

----------------------------------------------------------------------------
(* SpecLoad: load_data applied to every small CSV table *)

OtherCols == {"Notes"}

\* the text of a cell of column c: one that is a number / a note, and one
\* that pd.to_numeric rejects / an empty cell
GoodText(c) == IF c = "Time" THEN "12" ELSE IF c \in required_cols THEN "7" ELSE "ok"

BadText(c) == IF c \in required_cols THEN "x" ELSE ""

CsvTable(C, n, good) ==
    [readable |-> TRUE,
     index    |-> [i \in 1..n |-> i - 1],
     cols     |-> [c \in C |-> [i \in 1..n |->
                     IF good[c][i] THEN GoodText(c) ELSE BadText(c)]]]

InitLoad ==
    /\ pc = "load"
    /\ raised = "none"
    /\ EfficiencyIdle
    /\ DownsampleIdle
    /\ SmoothIdle
    /\ ScriptIdle
    /\ \/ csv = NoCsv
       \/ \E C \in SUBSET (required_cols \cup OtherCols), n \in 0..MaxCsvRows :
            \E good \in [C -> [1..n -> BOOLEAN]] : csv = CsvTable(C, n, good)
    /\ loaded = EmptyFrame
    /\ st_error = NoMessage

\* df_pp = load_data(csv_files[selected_ride]["PowerPedal"], cache_buster)
CallLoadData ==
    /\ pc = "load"
    /\ loaded' = load_data(csv).ret
    /\ st_error' = load_data(csv).msg
    /\ pc' = "returned"
    /\ UNCHANGED <<efficiencyVars, csv, raised, downsampleVars, smoothVars, scriptVars>>

NextLoad == CallLoadData

SpecLoad == InitLoad /\ [][NextLoad]_vars

----------------------------------------------------------------------------
(* Claims about load_data (checked under SpecLoad) *)

Returned == pc = "returned" /\ csv.readable

\* a data row of the table whose every required cell is numeric text
RowNumeric(i) == \A c \in required_cols : csv.cols[c][i] \in DOMAIN NumericText

\* C2 (as claimed): a table lacking a required column makes load_data fail
\* with a SchemaError that reaches the caller.
C2_SchemaErrorRaised ==
    (Returned /\ ~(required_cols \subseteq columns(csv))) => raised = "SchemaError"

\* C2 (amended): a table lacking a required column makes load_data report,
\* through st.error, exactly the missing required columns; nothing is raised
\* to the caller and the empty DataFrame (no rows, no columns) is returned.
C2_MissingColumnsReported ==
    (Returned /\ ~(required_cols \subseteq columns(csv)))
        => /\ st_error = [kind |-> "missing", cols |-> required_cols \ columns(csv)]
           /\ raised = "none"
           /\ loaded = EmptyFrame

C2_Witness ==
    /\ Returned
    /\ "Rider Power" \notin columns(csv)
    /\ "Time" \in columns(csv)
    /\ len(csv) >= 1
    /\ st_error.kind = "missing"
    /\ "Rider Power" \in st_error.cols
    /\ loaded = EmptyFrame

\* C3 (as claimed): with all required columns present, the returned series
\* holds exactly the rows whose every required field is numeric, in order;
\* cells of other columns never remove a row.
C3_ExactlyNumericRowsKept ==
    (Returned /\ required_cols \subseteq columns(csv))
        => LET keep == [i \in 1..len(csv) |-> RowNumeric(i)]
           IN  /\ loaded.index = SelectPos(csv.index, keep, 1)
               /\ len(loaded) = len(csv) - Cardinality({i \in 1..len(csv) : ~RowNumeric(i)})

----------------------------------------------------------------------------
(* The smoothing pass over a graph frame (lines 200-214 and 269-273) *)

Max(a, b) == IF a >= b THEN a ELSE b

Min(a, b) == IF a <= b THEN a ELSE b

\* mutant: window_size taken as the half-width of the window
RollingWindow_halfwidth(w, n, i) == Max(1, i - w)..Min(n, i + w)

\* mutant: the window of an even w is shifted one position to the right
RollingWindow_right(w, n, i) ==
    LET offset == w \div 2
    IN  Max(1, i + offset - w + 1)..Min(n, i + offset)

\* The positions (1-based) of the window of rolling(window=w, center=True) at
\* position i of a column of length n: pandas ends the window at
\* i + (w - 1) // 2, starts it w - 1 positions earlier and clips it to the column.
RollingWindow(w, n, i) ==
    LET offset == (w - 1) \div 2
    IN  Max(1, i + offset - w + 1)..Min(n, i + offset)

\* mutant: the window is padded with zeros outside the column (sum / window)
WindowMean_zeropad(col, w, i) ==
    LET obs == [j \in 1..Len(col) |-> j \in RollingWindow(w, Len(col), i) /\ ~IsNaN(col[j])]
        t   == RatSum(SelectPos(col, obs, 1))
    IN  Rat(t.n, t.d * w)

\* .rolling(window=w, center=True, min_periods=1).mean() at position i: the
\* mean of the defined samples of the window, NaN if there is none
WindowMean(col, w, i) ==
    LET obs == [j \in 1..Len(col) |-> j \in RollingWindow(w, Len(col), i) /\ ~IsNaN(col[j])]
    IN  mean(SelectPos(col, obs, 1))

rolling_mean(col, w) == [i \in 1..Len(col) |-> WindowMean(col, w, i)]

RatScale(x, k, m) == IF IsNaN(x) THEN NaN ELSE Rat(x.n * k, x.d * m)

\* .interpolate(method="linear").fillna(method="ffill").fillna(method="bfill")
\* on one column: an undefined cell between two defined ones is interpolated
\* linearly by position, one after the last defined cell takes that cell's
\* value, one before the first defined cell takes the first defined value.
FillUndefined(col) ==
    LET valid == {i \in 1..Len(col) : ~IsNaN(col[i])}
    IN  [i \in 1..Len(col) |->
           IF i \in valid THEN col[i]
           ELSE LET prev == {q \in valid : q < i}
                    next == {q \in valid : q > i}
                IN  IF prev # {} /\ next # {}
                    THEN LET a == CHOOSE q \in prev : \A r \in prev : r <= q
                             b == CHOOSE q \in next : \A r \in next : q <= r
                         IN  RatAdd(RatScale(col[a], b - i, b - a),
                                    RatScale(col[b], i - a, b - a))
                    ELSE IF prev # {}
                         THEN col[CHOOSE q \in prev : \A r \in prev : r <= q]
                         ELSE IF next # {}
                              THEN col[CHOOSE q \in next : \A r \in next : q <= r]
                              ELSE NaN]

SmoothedCols == {"Battery Power", "Rider Power", "KMPH"}

\* lines 270-273: the three rolling means, then the fill of the whole frame
Smooth(f, w) ==
    [index |-> f.index,
     cols  |-> [c \in columns(f) |->
                  FillUndefined(IF c \in SmoothedCols
                                THEN rolling_mean(f.cols[c], w)
                                ELSE f.cols[c])]]

\* window_size = st.sidebar.slider(...) if smoothing else 1
LocalWindowSize(sm, slider) == IF sm THEN slider ELSE 1

\* if smoothing and not df_graph_pp.empty and window_size > 0
SmoothingApplies(f, sm, w) == sm /\ ~empty(f) /\ w > 0

----------------------------------------------------------------------------
(* SpecSmooth: the smoothing pass applied to every small graph frame *)

\* the labels of a graph frame of n rows, as reset_index(drop=True) leaves them
RangeIndex(n) == [i \in 1..n |-> i - 1]

InitSmooth ==
    /\ pc = "smooth"
    /\ raised = "none"
    /\ EfficiencyIdle
    /\ LoadIdle
    /\ DownsampleIdle
    /\ ScriptIdle
    /\ \E n \in 0..MaxLen : IsFrame(df_graph, RangeIndex(n))
    /\ smoothing \in BOOLEAN
    /\ ss_window_size \in 0..MaxWindow
    /\ window_size = ss_window_size

\* lines 200-214 and 269-273 for one graph frame
SmoothingPass ==
    /\ pc = "smooth"
    /\ window_size' = LocalWindowSize(smoothing, ss_window_size)
    /\ ss_window_size' = window_size'
    /\ df_graph' = IF SmoothingApplies(df_graph, smoothing, window_size')
                   THEN Smooth(df_graph, window_size')
                   ELSE df_graph
    /\ pc' = "smoothed"
    /\ UNCHANGED <<efficiencyVars, raised, smoothing, loadVars, downsampleVars, scriptVars>>

NextSmooth == SmoothingPass

SpecSmooth == InitSmooth /\ [][NextSmooth]_vars

----------------------------------------------------------------------------
(* Claims about the smoothing pass (checked under SpecSmooth) *)

\* the smoothing pass runs now and applies the rolling mean with window w
Smoothing(w) ==
    /\ pc = "smooth"
    /\ smoothing
    /\ ss_window_size = w
    /\ w > 0
    /\ ~empty(df_graph)

\* C9: a window that reaches past either end of the column is cut to the
\* samples that exist: the output is their sum divided by their count, never
\* a sum divided by the window size.  Every output is the mean of a run of
\* at most window_size in-range samples around its position; for odd
\* window_size the run is i - (w-1)/2 .. i + (w-1)/2 cut to the column, so
\* that [a, b, c] with window_size 3 gives mean(a,b), mean(a,b,c), mean(b,c).
C9_EdgeWindowShrinks ==
    [][\A w \in 1..(MaxWindow + 1) : Smoothing(w) =>
          \A c \in SmoothedCols : \A i \in 1..len(df_graph) :
             LET out == df_graph'.cols[c][i]
                 col == df_graph.cols[c]
                 n   == len(df_graph)
                 h   == (w - 1) \div 2
                 sym == {j \in 1..n : i - h <= j /\ j <= i + h}
             IN  /\ out.d > 0
                 /\ \E lo \in 1..i : \E hi \in i..n :
                       /\ hi - lo + 1 <= w
                       /\ out.n * (hi - lo + 1) = SumOver(lo..hi, col) * out.d
                       /\ (lo = 1 \/ hi = n \/ hi - lo + 1 = w)
                 /\ (w % 2 = 1) =>
                       out.n * Cardinality(sym) = SumOver(sym, col) * out.d]_vars

\* [a, b, c] smoothed with window_size 3, a + b not a multiple of 2 and the
\* zero-padded mean (a + b) / 3 different from the mean (a + b) / 2
C9_Witness ==
    /\ pc = "smoothed"
    /\ smoothing
    /\ window_size = 3
    /\ len(df_graph) = 3
    /\ df_graph.cols["Battery Power"][1] = Rat(3, 2)
    /\ df_graph.cols["Battery Power"][3] = Num(3)

\* C10: with window_size = 1, and with 'Apply Smoothing' off, the smoothing
\* step leaves the graph frame as it was: same rows, same labels, same
\* values in every column.
C10_WindowOneIsIdentity ==
    [][(pc = "smooth" /\ (~smoothing \/ ss_window_size = 1)) => df_graph' = df_graph]_vars

C10_Witness ==
    /\ pc = "smoothed"
    /\ smoothing
    /\ window_size = 1
    /\ len(df_graph) = 3
    /\ df_graph.cols["Battery Power"][1] # df_graph.cols["Battery Power"][2]
    /\ df_graph.cols["Battery Power"][2] # df_graph.cols["Battery Power"][3]

\* the pass with window w wrote, at every position i of every smoothed
\* column, the mean of the input at the positions i - before .. i + after
\* that lie within the column
MeansOfRuns(w, before, after) ==
    \A c \in SmoothedCols : \A i \in 1..len(df_graph) :
       LET out == df_graph'.cols[c][i]
           run == Max(1, i - before)..Min(len(df_graph), i + after)
       IN  /\ out.d > 0
           /\ out.n * Cardinality(run) = SumOver(run, df_graph.cols[c]) * out.d

\* C14 (as claimed): for every window_size w >= 1 the smoothed value at i is
\* the mean of the input from i - floor((w-1)/2) through i + ceil((w-1)/2),
\* cut to the column: for even w the extra sample is the later one.
C14_ExtraSampleOnTheRight ==
    [][\A w \in 1..(MaxWindow + 1) : Smoothing(w) =>
          MeansOfRuns(w, (w - 1) \div 2, w \div 2)]_vars

\* C14 (amended): for every window_size w >= 1 the smoothed value at i is
\* the mean of the input from i - ceil((w-1)/2) through i + floor((w-1)/2),
\* cut to the column: for even w the extra sample is the earlier one.
C14_ExtraSampleOnTheLeft ==
    [][\A w \in 1..(MaxWindow + 1) : Smoothing(w) =>
          MeansOfRuns(w, w \div 2, (w - 1) \div 2)]_vars

\* [0, 3, 3] smoothed with window_size 2 is [0, 3/2, 3]; with the extra
\* sample on the right it would have been [3/2, 3, 3]
C14_Witness ==
    /\ pc = "smoothed"
    /\ smoothing
    /\ window_size = 2
    /\ len(df_graph) = 3
    /\ df_graph.cols["Battery Power"][1] = Num(0)
    /\ df_graph.cols["Battery Power"][2] = Rat(3, 2)
    /\ df_graph.cols["Battery Power"][3] = Num(3)

----------------------------------------------------------------------------
(* The script: time range controls, filter, graph frames, metrics *)

RangeCorrection == 100        \* end_time - 100, start_time + 100
MinGraphPoints == 50          \* max(50, len(df_graph_pp) // downsample_factor)
DefaultDownsampleFactor == 20 \* st.session_state.downsample_factor
MsPerSecond == 1000           \* duration = (max - min) / 1000

\* Series.min() of a non-empty sequence of defined values
RECURSIVE SeriesMin(_)
SeriesMin(s) ==
    IF Len(s) = 1 THEN Head(s)
    ELSE LET m == SeriesMin(Tail(s))
         IN  IF RatLE(Head(s), m) THEN Head(s) ELSE m

\* int(x): truncation towards zero
int(x) == IF x.n >= 0 THEN x.n \div x.d ELSE -((-x.n) \div x.d)

\* lines 123-131
min_time ==
    IF ~empty(df_pp) /\ ~empty(df_s)
    THEN Min(int(SeriesMin(df_pp.cols["Time"])), int(SeriesMin(df_s.cols["Time"])))
    ELSE IF ~empty(df_pp) THEN int(SeriesMin(df_pp.cols["Time"]))
    ELSE IF ~empty(df_s) THEN int(SeriesMin(df_s.cols["Time"]))
    ELSE ss_time_range[1]

max_time ==
    IF ~empty(df_pp) /\ ~empty(df_s)
    THEN Max(int(SeriesMax(df_pp.cols["Time"])), int(SeriesMax(df_s.cols["Time"])))
    ELSE IF ~empty(df_pp) THEN int(SeriesMax(df_pp.cols["Time"]))
    ELSE IF ~empty(df_s) THEN int(SeriesMax(df_s.cols["Time"]))
    ELSE ss_time_range[2]

\* A keyed Streamlit widget: it keeps the value the user gave it from run to
\* run as long as it is created with the same arguments; created with another
\* default (value=...) it is a new widget holding that default.
Render(w, dflt) ==
    IF w.live /\ w.dflt = dflt THEN w ELSE [live |-> TRUE, val |-> dflt, dflt |-> dflt]

\* value= of the two number inputs (lines 149, 158)
StartDefault == IF show_full THEN min_time ELSE ss_time_range[1]

EndDefault == IF show_full THEN max_time ELSE ss_time_range[2]

\* what st.number_input returns (lines 145-161)
StartInput == Render(w_start, StartDefault).val

EndInput == Render(w_end, EndDefault).val

\* what st.sidebar.slider returns (lines 174-182)
SliderInput == Render(w_slider, ss_time_range).val

\* mutant: the corrected bounds come out in the wrong order
CorrectedRange_swapped(st, en) ==
    <<Min(max_time, Max(min_time, en - RangeCorrection) + RangeCorrection),
      Max(min_time, en - RangeCorrection)>>

\* lines 165-166: start_time = max(min_time, end_time - 100);
\*                end_time = min(max_time, start_time + 100)
CorrectedRange(st, en) ==
    LET s2 == Max(min_time, en - RangeCorrection)
    IN  <<s2, Min(max_time, s2 + RangeCorrection)>>

\* mutant: the upper bound of the window is exclusive
TimeInRange_exclusive(t, tr) == RatLE(Num(tr[1]), t) /\ ~RatLE(Num(tr[2]), t)

\* (df["Time"] >= time_range[0]) & (df["Time"] <= time_range[1])
TimeInRange(t, tr) == RatLE(Num(tr[1]), t) /\ RatLE(t, Num(tr[2]))

\* lines 240-243 (and 245-248)
Filtered(f, sf, tr) ==
    IF ~empty(f)
    THEN IF sf THEN f
         ELSE Mask(f, [i \in 1..len(f) |-> TimeInRange(f.cols["Time"][i], tr)])
    ELSE EmptyFrame

\* line 266
GraphMaxPoints(g, factor) ==
    IF factor > 0 THEN Max(MinGraphPoints, len(g) \div factor) ELSE len(g)

\* lines 264-275 (and 277-288)
GraphFrame(ff, factor, sm, w) ==
    IF ~empty(ff)
    THEN LET g1 == IF len(ff) > GraphMaxPoints(ff, factor)
                   THEN advanced_downsample(ff, GraphMaxPoints(ff, factor))
                   ELSE ff
         IN  IF SmoothingApplies(g1, sm, w) THEN Smooth(g1, w) ELSE g1
    ELSE EmptyFrame

\* a column the code reads without a guard is not in the frame (KeyError)
KeyError(f, cs) == ~empty(f) /\ ~(cs \subseteq columns(f))

\* mutant: the distance gained inside the window (max - min)
Distance_delta(ff) ==
    IF ~empty(ff)
    THEN LET hi == SeriesMax(ff.cols["Ride Distance"])
             lo == SeriesMin(ff.cols["Ride Distance"])
         IN  Rat(hi.n * lo.d - lo.n * hi.d, hi.d * lo.d)
    ELSE Num(0)

\* lines 293-313
Distance(ff) ==
    IF ~empty(ff)
    THEN IF "Ride Distance" \in columns(ff) THEN SeriesMax(ff.cols["Ride Distance"]) ELSE Num(0)
    ELSE Num(0)

Duration(ff) ==
    IF ~empty(ff)
    THEN LET hi == SeriesMax(ff.cols["Time"])
             lo == SeriesMin(ff.cols["Time"])
         IN  Rat(hi.n * lo.d - lo.n * hi.d, hi.d * lo.d * MsPerSecond)
    ELSE Num(0)

----------------------------------------------------------------------------
(* Spec: the script, run after run, with the user's changes in between *)

\* a loaded ride: ascending labels (rows may have been dropped), Time
\* growing with the label, Ride Distance cumulative
RideFrame(idx) ==
    Frame(idx,
          [i \in 1..Len(idx) |->
              IF idx[i] % 2 = 0 THEN [bp |-> 0, rp |-> 4, kmph |-> 1]
              ELSE [bp |-> 3, rp |-> 1, kmph |-> 2]],
          [i \in 1..Len(idx) |-> idx[i] \div 2])

\* pd.DataFrame() stands for a ride whose load failed
RideFrames ==
    {EmptyFrame} \cup
    {RideFrame(Sorted(S)) :
        S \in {T \in SUBSET (0..MaxRideLabel) : T # {} /\ Cardinality(T) <= MaxRideRows}}

\* the values the user enters into a number input or drags the slider to
UserTimes == {t \in {TimeOf(l) : l \in 0..MaxRideLabel} : min_time <= t /\ t <= max_time}

Init ==
    /\ pc = "run"
    /\ raised = "none"
    /\ EfficiencyIdle
    /\ LoadIdle
    /\ DownsampleIdle
    /\ SmoothIdle
    /\ df_pp \in RideFrames
    /\ df_s \in RideFrames
    /\ show_full = FALSE /\ ss_time_range = <<0, 10000>> /\ initialized = FALSE
    /\ w_start = NoNumber /\ w_end = NoNumber /\ w_slider = NoSlider
    /\ start_time = 0 /\ end_time = 0 /\ time_range = <<0, 0>> /\ sidebar_error = FALSE
    /\ df_filtered_pp = EmptyFrame /\ df_filtered_s = EmptyFrame
    /\ df_graph_pp = EmptyFrame /\ df_graph_s = EmptyFrame
    /\ metrics = NoMetrics

HasData == ~empty(df_pp) \/ ~empty(df_s)

\* lines 116-139 (and 187-189 when neither ride loaded)
BeginRun ==
    /\ pc = "run"
    /\ sidebar_error' = FALSE
    /\ initialized' = TRUE
    /\ ss_time_range' = IF ~initialized THEN <<min_time, max_time>> ELSE ss_time_range
    /\ IF HasData
       THEN /\ pc' = "inputs"
            /\ UNCHANGED <<start_time, end_time, time_range>>
       ELSE /\ pc' = "filter"
            /\ start_time' = ss_time_range'[1]
            /\ end_time' = ss_time_range'[2]
            /\ time_range' = ss_time_range'
    /\ UNCHANGED <<efficiencyVars, raised, loadVars, downsampleVars, smoothVars, dataVars, outputVars,
                   show_full, w_start, w_end, w_slider>>

\* lines 141-168: the number inputs return start >= end
CorrectOrder ==
    /\ pc = "inputs"
    /\ StartInput >= EndInput
    /\ w_start' = Render(w_start, StartDefault)
    /\ w_end' = Render(w_end, EndDefault)
    /\ sidebar_error' = TRUE
    /\ start_time' = CorrectedRange(StartInput, EndInput)[1]
    /\ end_time' = CorrectedRange(StartInput, EndInput)[2]
    /\ ss_time_range' = <<start_time', end_time'>>
    /\ pc' = "run"
    /\ UNCHANGED <<efficiencyVars, raised, loadVars, downsampleVars, smoothVars, dataVars, outputVars,
                   show_full, initialized, w_slider, time_range>>

\* lines 141-162, 170-172: the number inputs differ from the stored range
SyncNumberInputs ==
    /\ pc = "inputs"
    /\ StartInput < EndInput
    /\ <<StartInput, EndInput>> # ss_time_range /\ ~show_full
    /\ w_start' = Render(w_start, StartDefault)
    /\ w_end' = Render(w_end, EndDefault)
    /\ start_time' = StartInput
    /\ end_time' = EndInput
    /\ ss_time_range' = <<StartInput, EndInput>>
    /\ pc' = "run"
    /\ UNCHANGED <<efficiencyVars, raised, loadVars, downsampleVars, smoothVars, dataVars, outputVars,
                   show_full, initialized, w_slider, time_range, sidebar_error>>

\* lines 141-172 without a rerun
AcceptNumberInputs ==
    /\ pc = "inputs"
    /\ StartInput < EndInput
    /\ ~(<<StartInput, EndInput>> # ss_time_range /\ ~show_full)
    /\ w_start' = Render(w_start, StartDefault)
    /\ w_end' = Render(w_end, EndDefault)
    /\ start_time' = StartInput
    /\ end_time' = EndInput
    /\ pc' = "slider"
    /\ UNCHANGED <<efficiencyVars, raised, loadVars, downsampleVars, smoothVars, dataVars, outputVars,
                   show_full, initialized, ss_time_range, w_slider, time_range,
                   sidebar_error>>

\* lines 174-186: the slider differs from the stored range
SyncSlider ==
    /\ pc = "slider"
    /\ SliderInput # ss_time_range /\ ~show_full
    /\ w_slider' = Render(w_slider, ss_time_range)
    /\ time_range' = SliderInput
    /\ ss_time_range' = SliderInput
    /\ pc' = "run"
    /\ UNCHANGED <<efficiencyVars, raised, loadVars, downsampleVars, smoothVars, dataVars, outputVars,
                   show_full, initialized, w_start, w_end, start_time, end_time,
                   sidebar_error>>

\* lines 174-186 without a rerun
AcceptSlider ==
    /\ pc = "slider"
    /\ ~(SliderInput # ss_time_range /\ ~show_full)
    /\ w_slider' = Render(w_slider, ss_time_range)
    /\ time_range' = SliderInput
    /\ pc' = "filter"
    /\ UNCHANGED <<efficiencyVars, raised, loadVars, downsampleVars, smoothVars, dataVars, outputVars,
                   show_full, initialized, ss_time_range, w_start, w_end, start_time,
                   end_time, sidebar_error>>

\* lines 239-248
FilterData ==
    /\ pc = "filter"
    /\ df_filtered_pp' = Filtered(df_pp, show_full, time_range)
    /\ df_filtered_s' = Filtered(df_s, show_full, time_range)
    /\ pc' = "graph"
    /\ UNCHANGED <<efficiencyVars, raised, loadVars, downsampleVars, smoothVars, dataVars, widgetVars,
                   localVars, df_graph_pp, df_graph_s, metrics>>

\* lines 263-288
PrepareGraphs ==
    /\ pc = "graph"
    /\ IF \/ KeyError(df_filtered_pp, SmoothedCols)
          \/ KeyError(df_filtered_s, SmoothedCols)
       THEN /\ raised' = "KeyError"
            /\ pc' = "idle"
            /\ UNCHANGED <<df_graph_pp, df_graph_s>>
       ELSE /\ df_graph_pp' = GraphFrame(df_filtered_pp, DefaultDownsampleFactor,
                                         smoothing, window_size)
            /\ df_graph_s' = GraphFrame(df_filtered_s, DefaultDownsampleFactor,
                                        smoothing, window_size)
            /\ pc' = "metrics"
            /\ UNCHANGED raised
    /\ UNCHANGED <<efficiencyVars, loadVars, downsampleVars, smoothVars, dataVars, widgetVars, localVars,
                   df_filtered_pp, df_filtered_s, metrics>>

\* lines 292-313
CalculateMetrics ==
    /\ pc = "metrics"
    /\ IF KeyError(df_filtered_pp, {"Time"}) \/ KeyError(df_filtered_s, {"Time"})
       THEN /\ raised' = "KeyError"
            /\ pc' = "idle"
            /\ UNCHANGED metrics
       ELSE /\ metrics' = [distance_pp |-> Distance(df_filtered_pp),
                           duration_pp |-> Duration(df_filtered_pp),
                           distance_s  |-> Distance(df_filtered_s),
                           duration_s  |-> Duration(df_filtered_s)]
            /\ pc' = "plot"
            /\ UNCHANGED raised
    /\ UNCHANGED <<efficiencyVars, loadVars, downsampleVars, smoothVars, dataVars, widgetVars, localVars,
                   df_filtered_pp, df_filtered_s, df_graph_pp, df_graph_s>>

\* lines 343-534 and 824-829: the traces and axis ranges read Time, Battery
\* Power and Rider Power of each non-empty graph frame
Plot ==
    /\ pc = "plot"
    /\ raised' = IF \/ KeyError(df_graph_pp, {"Time", "Battery Power", "Rider Power"})
                    \/ KeyError(df_graph_s, {"Time", "Battery Power", "Rider Power"})
                 THEN "KeyError" ELSE raised
    /\ pc' = "idle"
    /\ UNCHANGED <<efficiencyVars, loadVars, downsampleVars, smoothVars, scriptVars>>

\* the user types a value into 'Start Time (ms)'
EditStartTime ==
    /\ pc = "idle" /\ raised = "none" /\ w_start.live
    /\ \E v \in UserTimes : v # w_start.val /\ w_start' = [w_start EXCEPT !.val = v]
    /\ pc' = "run"
    /\ UNCHANGED <<efficiencyVars, raised, loadVars, downsampleVars, smoothVars, dataVars, outputVars,
                   localVars, show_full, ss_time_range, initialized, w_end, w_slider>>

\* the user types a value into 'End Time (ms)'
EditEndTime ==
    /\ pc = "idle" /\ raised = "none" /\ w_end.live
    /\ \E v \in UserTimes : v # w_end.val /\ w_end' = [w_end EXCEPT !.val = v]
    /\ pc' = "run"
    /\ UNCHANGED <<efficiencyVars, raised, loadVars, downsampleVars, smoothVars, dataVars, outputVars,
                   localVars, show_full, ss_time_range, initialized, w_start, w_slider>>

\* the user drags a handle of 'Select Time Range (ms)' (disabled by show_full)
MoveSlider ==
    /\ pc = "idle" /\ raised = "none" /\ w_slider.live /\ ~show_full
    /\ \E lo \in UserTimes, hi \in UserTimes :
          /\ lo <= hi
          /\ <<lo, hi>> # w_slider.val
          /\ w_slider' = [w_slider EXCEPT !.val = <<lo, hi>>]
    /\ pc' = "run"
    /\ UNCHANGED <<efficiencyVars, raised, loadVars, downsampleVars, smoothVars, dataVars, outputVars,
                   localVars, show_full, ss_time_range, initialized, w_start, w_end>>

\* the user ticks or unticks 'Show Full Dataset'
ToggleShowFull ==
    /\ pc = "idle" /\ raised = "none"
    /\ show_full' = ~show_full
    /\ pc' = "run"
    /\ UNCHANGED <<efficiencyVars, raised, loadVars, downsampleVars, smoothVars, dataVars, outputVars,
                   localVars, ss_time_range, initialized, w_start, w_end, w_slider>>

Next ==
    \/ BeginRun
    \/ CorrectOrder
    \/ SyncNumberInputs
    \/ AcceptNumberInputs
    \/ SyncSlider
    \/ AcceptSlider
    \/ FilterData
    \/ PrepareGraphs
    \/ CalculateMetrics
    \/ Plot
    \/ EditStartTime
    \/ EditEndTime
    \/ MoveSlider
    \/ ToggleShowFull

Spec == Init /\ [][Next]_vars

\* one step of the sidebar controls (lines 116-189), the only part of the
\* script that calls st.rerun()
ControlStep ==
    \/ BeginRun
    \/ CorrectOrder
    \/ SyncNumberInputs
    \/ AcceptNumberInputs
    \/ SyncSlider
    \/ AcceptSlider

\* Streamlit runs the script on from where it stands, and after st.rerun()
\* starts the next run; nothing makes the user act
FairSpec == Spec /\ WF_vars(ControlStep)

----------------------------------------------------------------------------
(* Claims about the time window (checked under Spec) *)

\* the filter of the current run has been applied
AfterFilter == pc \in {"graph", "metrics", "plot", "idle"}

\* position i of loaded frame f lies in the closed window time_range
InWindow(f, i) ==
    /\ time_range[1] * f.cols["Time"][i].d <= f.cols["Time"][i].n
    /\ f.cols["Time"][i].n <= time_range[2] * f.cols["Time"][i].d

\* ff holds exactly the rows of f that lie in the window, in f's order
ExactSlice(f, ff) ==
    /\ columns(ff) = columns(f)
    /\ \A i \in 1..len(f) : InWindow(f, i) <=> (\E k \in 1..len(ff) : ff.index[k] = f.index[i])
    /\ \A k \in 1..len(ff) : \E i \in 1..len(f) :
          /\ ff.index[k] = f.index[i]
          /\ \A c \in columns(f) : ff.cols[c][k] = f.cols[c][i]
    /\ \A k \in 1..(len(ff) - 1) : ff.index[k] < ff.index[k + 1]

\* C4: with 'Show Full Dataset' off, the filtered series of each loaded
\* dataset is exactly its samples with time_range[0] <= Time <= time_range[1],
\* in their original order; with no sample in range it is empty and the run
\* finishes without an error.
C4_FilterExact ==
    (AfterFilter /\ ~show_full) =>
        /\ ~empty(df_pp) => ExactSlice(df_pp, df_filtered_pp)
        /\ ~empty(df_s) => ExactSlice(df_s, df_filtered_s)
        /\ raised = "none"

\* a finished run in which one dataset lost one of its two samples, with a
\* kept sample on the upper bound, and the other has no sample in range
C4_Witness ==
    /\ pc = "idle" /\ ~show_full /\ raised = "none"
    /\ len(df_pp) = 2 /\ len(df_filtered_pp) = 1
    /\ df_filtered_pp.cols["Time"][1] = Num(time_range[2])
    /\ len(df_s) >= 1 /\ len(df_filtered_s) = 0
    /\ time_range[1] < time_range[2]

\* C5 (as claimed): a request with start > end fails with an
\* InvalidRangeError and the bounds are not corrected.
C5_InvalidRangeErrorRaised ==
    [][(pc = "inputs" /\ StartInput > EndInput)
          => (raised' = "InvalidRangeError" /\ ss_time_range' = ss_time_range)]_vars

\* C5 (amended): number inputs with start >= end raise no error to the
\* caller: the run shows the sidebar error, stores the corrected bounds
\* start' = max(min_time, end - 100), end' = min(max_time, start' + 100)
\* (min_time <= start' <= end' <= max_time) in st.session_state.time_range
\* and reruns without producing a filtered series; the filter is only ever
\* applied with time_range[0] <= time_range[1].
C5_BoundsCorrectedAndRerun ==
    [][/\ (pc = "inputs" /\ StartInput >= EndInput) =>
             /\ raised' = "none"
             /\ sidebar_error'
             /\ pc' = "run"
             /\ ss_time_range'[1] = Max(min_time, EndInput - RangeCorrection)
             /\ ss_time_range'[2] = Min(max_time, ss_time_range'[1] + RangeCorrection)
             /\ min_time <= ss_time_range'[1]
             /\ ss_time_range'[1] <= ss_time_range'[2]
             /\ ss_time_range'[2] <= max_time
             /\ UNCHANGED <<df_filtered_pp, df_filtered_s>>
       /\ pc = "filter" => time_range[1] <= time_range[2]]_vars

\* the run that met start > end has just been abandoned with the corrected
\* bounds stored, both different from the bounds asked for
C5_Witness ==
    /\ pc = "run" /\ sidebar_error /\ raised = "none"
    /\ w_start.val > w_end.val
    /\ ss_time_range[1] < ss_time_range[2]
    /\ ss_time_range[1] # w_start.val
    /\ ss_time_range[2] # w_end.val
    /\ ss_time_range[2] < max_time

----------------------------------------------------------------------------
(* Claims about the metrics (checked under Spec) *)

\* dist is the largest Ride Distance and dur the span of Time in seconds of
\* the filtered series ff; both are 0 for an empty series
MetricsOf(ff, dist, dur) ==
    IF len(ff) = 0
    THEN dist = Num(0) /\ dur = Num(0)
    ELSE /\ \E i \in 1..len(ff) : dist = ff.cols["Ride Distance"][i]
         /\ \A i \in 1..len(ff) : RatLE(ff.cols["Ride Distance"][i], dist)
         /\ \E i, j \in 1..len(ff) :
               /\ \A k \in 1..len(ff) :
                     /\ RatLE(ff.cols["Time"][k], ff.cols["Time"][i])
                     /\ RatLE(ff.cols["Time"][j], ff.cols["Time"][k])
               /\ dur.d > 0
               /\ dur.n * MsPerSecond = (ff.cols["Time"][i].n - ff.cols["Time"][j].n) * dur.d

\* C11: for each dataset the reported distance is the maximum Ride Distance
\* and the reported duration is (max Time - min Time) / 1000 over the
\* time-window-filtered series; for an empty filtered series both are 0 and
\* no error is raised.
C11_MetricsOverFilteredSeries ==
    (pc \in {"plot", "idle"}) =>
        /\ raised = "none"
        /\ MetricsOf(df_filtered_pp, metrics.distance_pp, metrics.duration_pp)
        /\ MetricsOf(df_filtered_s, metrics.distance_s, metrics.duration_s)

\* a finished run with two PowerPedal samples in the window that start at a
\* distance above 0, and a loaded Stock ride with no sample in the window
C11_Witness ==
    /\ pc = "idle" /\ raised = "none" /\ ~show_full
    /\ len(df_filtered_pp) = 2
    /\ df_filtered_pp.cols["Ride Distance"][1].n >= 1
    /\ metrics.distance_pp = df_filtered_pp.cols["Ride Distance"][2]
    /\ metrics.duration_pp = Rat(1, 20)
    /\ len(df_s) >= 1 /\ len(df_filtered_s) = 0
    /\ metrics.distance_s = Num(0) /\ metrics.duration_s = Num(0)

----------------------------------------------------------------------------
(* Claims about the reruns (checked under FairSpec) *)

\* a script run starts with 'Show Full Dataset' off and data of more than
\* one instant
RunOverRange == pc = "run" /\ ~show_full /\ HasData /\ min_time < max_time

\* the controls of a run ended without st.rerun(), so that the run goes on
\* to its end, with the stored range valid and equal to the number inputs
\* and to the slider
ControlsSettled ==
    /\ pc = "filter"
    /\ min_time <= ss_time_range[1]
    /\ ss_time_range[1] < ss_time_range[2]
    /\ ss_time_range[2] <= max_time
    /\ <<start_time, end_time>> = ss_time_range
    /\ time_range = ss_time_range

\* C16 (as claimed): with 'Show Full Dataset' off and min_time < max_time,
\* the reruns that follow a change of the number inputs or of the slider
\* end: some run gets past its controls without st.rerun(), and in it the
\* stored range satisfies min_time <= start < end <= max_time and equals the
\* number inputs and the slider.
C16_RerunChainFinite == RunOverRange ~> ControlsSettled

----------------------------------------------------------------------------
(* efficiency_m_per_wh (specification section 4.5) *)

\* x / y for a distance x and an energy y: the quotient, or the division
\* error when y is 0
TrueDivide(x, y) ==
    IF y.n = 0
    THEN [value |-> NaN, exc |-> "ZeroDivisionError"]
    ELSE [value |-> IF y.n > 0 THEN Rat(x * y.d, y.n) ELSE Rat(-(x * y.d), -y.n),
          exc   |-> "none"]

\* mutant: the guard lets energy_wh = 0 through to the division
efficiency_guard_ge(d, e) ==
    IF e.n >= 0 THEN TrueDivide(d, e) ELSE [value |-> Num(0), exc |-> "none"]

\* distance_m / energy_wh if energy_wh > 0, else 0.0
efficiency_m_per_wh(d, e) ==
    IF e.n > 0 THEN TrueDivide(d, e) ELSE [value |-> Num(0), exc |-> "none"]

\* the energies tried: whole and half watt-hours, negative ones included
Energies ==
    {Rat(k, m) : k \in (-MaxEnergyNum)..MaxEnergyNum, m \in {1, 2}}

\* the distances tried, the 100 m of the zero-guard scenario included
Distances == (0..MaxDistanceM) \cup {100}

InitEfficiency ==
    /\ pc = "efficiency"
    /\ raised = "none"
    /\ LoadIdle
    /\ DownsampleIdle
    /\ SmoothIdle
    /\ ScriptIdle
    /\ distance_m \in Distances
    /\ energy_wh \in Energies
    /\ efficiency = Num(0)

\* efficiency = efficiency_m_per_wh(distance_m, energy_wh)
CallEfficiency ==
    /\ pc = "efficiency"
    /\ efficiency' = efficiency_m_per_wh(distance_m, energy_wh).value
    /\ raised' = efficiency_m_per_wh(distance_m, energy_wh).exc
    /\ pc' = "computed"
    /\ UNCHANGED <<distance_m, energy_wh, loadVars, downsampleVars, smoothVars, scriptVars>>

NextEfficiency == CallEfficiency

SpecEfficiency == InitEfficiency /\ [][NextEfficiency]_vars

\* C12: the efficiency is distance_m / energy_wh when energy_wh > 0 and
\* exactly 0 when energy_wh <= 0; no input raises an error or gives an
\* undefined or infinite value.
C12_EfficiencyZeroGuard ==
    (pc = "computed") =>
        /\ raised = "none"
        /\ efficiency.d > 0
        /\ energy_wh.n > 0 =>
              efficiency.n * energy_wh.n = distance_m * energy_wh.d * efficiency.d
        /\ energy_wh.n <= 0 => efficiency = Num(0)

\* efficiency_m_per_wh(100, 0) has returned 0
C12_Witness ==
    /\ pc = "computed"
    /\ distance_m = 100
    /\ energy_wh = Num(0)
    /\ efficiency = Num(0)
    /\ raised = "none"

====
